---------------------------- MODULE Spec2Model ----------------------------
(***************************************************************************)
(* Model of helper_scripts/remove_unused_variables.py: the unused-variable *)
(* detector (ast.NodeVisitor), the regex rewriting of Python files, the    *)
(* regex-only rewriting of JavaScript files, the in-place write-back and   *)
(* the directory sweep of main().                                          *)
(*                                                                         *)
(* A file is a sequence of physical lines, each terminated by a newline.   *)
(* A line is a record naming its text shape:                               *)
(*   k  the shape, t  the names written left of '=' signs (in order),      *)
(*   r  the names read on the line.                                        *)
(* The Python shapes and their texts (n, m: names; E: "1" or a name read): *)
(*   assign    "n = E"  /  "n = m = E"                                     *)
(*   expr      "print(E)"                                                  *)
(*   callopen  "n = f("            a call whose arguments follow           *)
(*   named     "    n=1,"          indented, with a trailing comma         *)
(*   close     ")"                                                         *)
(*   blank     ""                                                          *)
(*   defopen   "def f("   defclose  "): pass"                               *)
(*   defstar   "def f(" followed on the same line by a bare star and a     *)
(*             comma: the parameters below it are keyword-only             *)
(* The JavaScript shapes:                                                  *)
(*   decl      "const n = E;" or, without the semicolon, "const n = E"     *)
(*   declopen  "const n = () => {" a declaration continued below           *)
(*   stmt      "foo(E);"                                                   *)
(*   end       "};"                                                        *)
(*   blank     ""                                                          *)
(* ast.parse sees the tokens of these texts, the regular expressions see   *)
(* the characters: both are computed from the same lines below.            *)
(***************************************************************************)
EXTENDS Integers, Sequences, FiniteSets, TLC

\* Longest Python file (in lines) the model explores.
MaxPyLen == 4
\* Longest JavaScript file (in lines) the model explores.
MaxJsLen == 4
\* How many times the script is run on the same file.
MaxRuns == 2
\* Number of entries in the swept workspace.
MaxFiles == 3

Range(s) == {s[i] : i \in 1..Len(s)}

Line(k, t, r) == [k |-> k, t |-> t, r |-> r]

\* The Python lines the explored files are made of.
PyLineCatalogue ==
    << Line("assign",   <<"x">>,      {}),      \* x = 1
       Line("assign",   <<"y">>,      {}),      \* y = 2
       Line("assign",   <<"y">>,      {"x"}),   \* y = x
       Line("assign",   <<"y", "x">>, {}),      \* y = x = 1
       Line("assign",   <<"_t">>,     {}),      \* _t = 1
       Line("expr",     <<>>,         {"x"}),   \* print(x)
       Line("callopen", <<"y">>,      {}),      \* y = f(
       Line("named",    <<"y">>,      {}),      \*     y=1,
       Line("close",    <<>>,         {}),      \* )
       Line("blank",    <<>>,         {}),      \*
       Line("defopen",  <<>>,         {}),      \* def f(
       Line("defstar",  <<>>,         {}),      \* def f( *,   (written without the space)
       Line("defclose", <<>>,         {}) >>    \* ): pass

PyLines == Range(PyLineCatalogue)

SeqsUpTo(S, n) == UNION {[1..m -> S] : m \in 0..n}

PyFiles == SeqsUpTo(PyLines, MaxPyLen)

(***************************************************************************)
(* ast.parse.                                                              *)
(*                                                                         *)
(* The parse keeps the stack of open brackets. Each level records which    *)
(* bracket it is (c), whether another element may follow (sep: at the      *)
(* start and after a comma), whether a keyword argument was seen (kw) and  *)
(* whether a bare star still waits for its first parameter (need). Inside  *)
(* a bracket the tokenizer ignores line breaks and indentation, so "n = E" *)
(* there is a keyword argument (in a call) or a parameter with a default   *)
(* (in a signature), not an Assign statement.                              *)
(*                                                                         *)
(* The tree is kept as what the visitor reads of it: the Assign nodes      *)
(* (lineno, end_lineno, the names of their Name targets), the Name nodes   *)
(* in Load context (id, lineno), and the parameters of the FunctionDef     *)
(* nodes (arg, lineno, and whether the parameter is in args.kwonlyargs     *)
(* rather than args.args).                                                 *)
(***************************************************************************)
Level(c) == [c |-> c, sep |-> TRUE, kw |-> FALSE, need |-> (c = "defstar")]

Top(st) == st[Len(st)]

Pop(st) == SubSeq(st, 1, Len(st) - 1)

\* The enclosing bracket after an element that has no trailing comma.
AfterElement(st) ==
    IF st = <<>> THEN st
    ELSE [st EXCEPT ![Len(st)] = [@ EXCEPT !.sep = FALSE, !.kw = TRUE, !.need = FALSE]]

AssignNode(lineno, end_lineno, targets) ==
    [lineno |-> lineno, end_lineno |-> end_lineno, targets |-> targets]

\* The Name nodes in Load context of line i.
Loads(l, i) == {<<name, i>> : name \in l.r}

ParseInit ==
    [ok |-> TRUE, st |-> <<>>, open_assign |-> 0,
     assigns |-> {}, loads |-> {}, params |-> {}]

SyntaxError(s) == [s EXCEPT !.ok = FALSE]

\* Line i at statement level.
ParseStatement(s, l, i) ==
    IF l.k = "assign"
      THEN [s EXCEPT !.assigns = @ \cup {AssignNode(i, i, l.t)},
                     !.loads = @ \cup Loads(l, i)]
    ELSE IF l.k = "expr"
      THEN [s EXCEPT !.loads = @ \cup Loads(l, i)]
    ELSE IF l.k = "callopen"
      THEN [s EXCEPT !.open_assign = i, !.st = <<Level("call")>>]
    ELSE IF l.k \in {"defopen", "defstar"}
      THEN [s EXCEPT !.st = <<Level(l.k)>>]
    ELSE SyntaxError(s)     \* unexpected indent, unmatched ')'

\* The closing parenthesis of a call on line i: of an argument or a default
\* (the enclosing bracket goes on), or of the statement opened on line
\* open_assign.
ParseClose(s, text, i) ==
    IF Len(s.st) > 1
      THEN [s EXCEPT !.st = AfterElement(Pop(s.st))]
    ELSE IF s.open_assign # 0
      THEN [s EXCEPT !.st = <<>>, !.open_assign = 0,
                     !.assigns = @ \cup
                         {AssignNode(s.open_assign, i, text[s.open_assign].t)}]
    ELSE [s EXCEPT !.st = <<>>]

\* Line i inside the parentheses of a call.
ParseArgument(s, text, i) ==
    LET top == Top(s.st)
        l == text[i]
    IN
    IF l.k = "close"
      THEN ParseClose(s, text, i)
    ELSE IF ~top.sep
      THEN SyntaxError(s)   \* an element follows one that has no comma
    ELSE IF l.k = "assign" /\ Len(l.t) = 1
      THEN [s EXCEPT !.loads = @ \cup Loads(l, i), !.st = AfterElement(s.st)]
    ELSE IF l.k = "expr" /\ ~top.kw
      THEN [s EXCEPT !.loads = @ \cup Loads(l, i),
                     !.st = [@ EXCEPT ![Len(@)] = [top EXCEPT !.sep = FALSE]]]
    ELSE IF l.k = "callopen"
      THEN [s EXCEPT !.st = Append(@, Level("call"))]
    ELSE IF l.k = "named"
      THEN [s EXCEPT !.st = [@ EXCEPT ![Len(@)] = [top EXCEPT !.kw = TRUE]]]
    ELSE SyntaxError(s)

\* The parameter declared on line i of a signature.
Param(top, l, i) == {[arg |-> l.t[1], lineno |-> i, kwonly |-> (top.c = "defstar")]}

\* Line i inside the parentheses of a signature.
ParseParameter(s, text, i) ==
    LET top == Top(s.st)
        l == text[i]
    IN
    IF l.k = "defclose"
      THEN IF top.need THEN SyntaxError(s) ELSE [s EXCEPT !.st = Pop(@)]
    ELSE IF ~top.sep
      THEN SyntaxError(s)
    ELSE IF l.k = "assign" /\ Len(l.t) = 1
      THEN [s EXCEPT !.loads = @ \cup Loads(l, i),
                     !.params = @ \cup Param(top, l, i),
                     !.st = AfterElement(s.st)]
    ELSE IF l.k = "callopen"
      THEN [s EXCEPT !.params = @ \cup Param(top, l, i),
                     !.st = Append(@, Level("call"))]
    ELSE IF l.k = "named"
      THEN [s EXCEPT !.params = @ \cup Param(top, l, i),
                     !.st = [@ EXCEPT ![Len(@)] = [top EXCEPT !.need = FALSE]]]
    ELSE SyntaxError(s)

ParseLine(s, text, i) ==
    IF ~s.ok \/ text[i].k = "blank" THEN s
    ELSE IF s.st = <<>> THEN ParseStatement(s, text[i], i)
    ELSE IF Top(s.st).c = "call" THEN ParseArgument(s, text, i)
    ELSE ParseParameter(s, text, i)

RECURSIVE ParseFrom(_, _, _)
ParseFrom(s, text, i) ==
    IF i > Len(text) THEN s ELSE ParseFrom(ParseLine(s, text, i), text, i + 1)

\* ast.parse(content); the end of the text inside a bracket is a SyntaxError.
Parse(text) ==
    LET s == ParseFrom(ParseInit, text, 1) IN
    IF s.st = <<>> THEN s ELSE SyntaxError(s)

\* A parser that raises no SyntaxError on any text.
ParsesLeniently(text) == TRUE

\* ast.parse(content) does not raise SyntaxError.
Parses(text) == Parse(text).ok

(***************************************************************************)
(* UnusedVariableDetector, on the tree of a text that parses.              *)
(***************************************************************************)
\* visit_FunctionDef: the names of node.args.args, of every function.
FunctionParams(tree) == {p.arg : p \in {q \in tree.params : ~q.kwonly}}

\* visit_Assign: the pairs (name, line) of the Name targets; the code keeps
\* them as a dictionary from the name to its lines.
DefinedVars(tree) ==
    UNION {{<<a.targets[j], a.lineno>> : j \in 1..Len(a.targets)} : a \in tree.assigns}

\* visit_Name: the names in Load context.
UsedVars(tree) == {ld[1] : ld \in tree.loads}

\* var.startswith('_')
IsMarked(var) == var \in {"_t"}

\* UnusedVariableDetector.get_unused_variables
GetUnusedVariables(text) ==
    LET tree == Parse(text) IN
    {var \in {d[1] : d \in DefinedVars(tree)} :
        /\ var \notin UsedVars(tree)
        /\ var \notin FunctionParams(tree)
        /\ ~IsMarked(var)}

(***************************************************************************)
(* The rewriting of process_python_file.  modified_content is kept as the  *)
(* sequence of the line numbers of content it still holds; its text is     *)
(* TextOf(content, modified_content).                                      *)
(***************************************************************************)
TextOf(text, kept) == [i \in 1..Len(kept) |-> text[kept[i]]]

AllLines(text) == [i \in 1..Len(text) |-> i]

\* ^\s*var\s*=\s*.*$ matched at the first character of a line: optional
\* indentation, the name, optional blanks, an '=' sign, the rest of the line.
MatchesAssignment(l, var) ==
    l.k \in {"assign", "callopen", "named"} /\ l.t[1] = var

IsBlank(l) == l.k = "blank"

\* The lines on which a match of the pattern ends (re.findall finds one match
\* for each of them).
MatchLines(text, var) == {i \in 1..Len(text) : MatchesAssignment(text[i], var)}

\* With re.MULTILINE ^ also matches at the start of an empty line, and the
\* \s* after it runs over line breaks: a match takes the empty lines right
\* above the assignment with it.
MatchedLines(text, var) ==
    {i \in 1..Len(text) :
        \E j \in MatchLines(text, var) :
            /\ i <= j
            /\ \A k \in i..(j - 1) : IsBlank(text[k])}

RECURSIVE Without(_, _, _)
\* s with the positions in del taken out, from position i on.
Without(s, del, i) ==
    IF i > Len(s) THEN <<>>
    ELSE (IF i \in del THEN <<>> ELSE <<s[i]>>) \o Without(s, del, i + 1)

\* re.sub(pattern + r'\n?', '', modified_content, flags=re.MULTILINE)
SubAssignment(text, kept, var) ==
    Without(kept, MatchedLines(TextOf(text, kept), var), 1)

\* One turn of the loop "for var in unused_vars".
RemoveVar(text, state, var) ==
    LET matches == MatchLines(TextOf(text, state.modified_content), var) IN
    IF matches # {}
      THEN [modified_content |-> SubAssignment(text, state.modified_content, var),
            removed_count |-> state.removed_count + Cardinality(matches)]
      ELSE state

RECURSIVE RemoveVars(_, _, _)
\* The whole loop, in some order of the set.
RemoveVars(text, state, todo) ==
    IF todo = {} THEN state
    ELSE LET var == CHOOSE v \in todo : TRUE IN
         RemoveVars(text, RemoveVar(text, state, var), todo \ {var})

\* The values a process_* function returns.
Returned(removed, errors) == [removed |-> removed, errors |-> errors]

\* "return 0, 1" of the except SyntaxError branch.
SyntaxErrorReturn == Returned(0, 1)

\* "return 0, 1" of the except Exception branch.
ExceptionReturn == Returned(0, 1)

Prefix(s, n) == SubSeq(s, 1, n)

(***************************************************************************)
(* An I/O fault of one call: none, the open for reading fails, the open    *)
(* for writing fails (nothing is truncated), or the write fails after the  *)
(* file was truncated and n of the new lines reached the disk.             *)
(***************************************************************************)
Fault(at, n) == [at |-> at, n |-> n]

NoFault == Fault("none", 0)

\* open(filepath, 'w') ... f.write(new): the file and what is returned.
WriteBack(old, new, removed, fault) ==
    IF fault.at = "open"
      THEN [disk |-> old, ret |-> ExceptionReturn]
    ELSE IF fault.at = "write" /\ fault.n < Len(new)
      THEN [disk |-> Prefix(new, fault.n), ret |-> ExceptionReturn]
    ELSE [disk |-> new, ret |-> Returned(removed, 0)]

\* process_python_file as one step: the file afterwards and the pair returned.
ProcessPythonFile(disk, fault) ==
    IF fault.at = "read" THEN [disk |-> disk, ret |-> ExceptionReturn]
    ELSE IF ~Parses(disk) THEN [disk |-> disk, ret |-> SyntaxErrorReturn]
    ELSE LET unused == GetUnusedVariables(disk)
             final == RemoveVars(disk,
                         [modified_content |-> AllLines(disk), removed_count |-> 0],
                         unused)
         IN IF unused = {} \/ final.removed_count = 0
              THEN [disk |-> disk, ret |-> Returned(0, 0)]
              ELSE WriteBack(disk, TextOf(disk, final.modified_content),
                             final.removed_count, fault)

(***************************************************************************)
(* process_javascript_file.  A JavaScript line also says whether its text  *)
(* ends with a semicolon (semi); no other place of a line holds one.       *)
(***************************************************************************)
JsLine(k, t, r, semi) == [k |-> k, t |-> t, r |-> r, semi |-> semi]

\* The JavaScript lines the explored files are made of.
JsLineCatalogue ==
    << JsLine("decl",     <<"x">>,  {},    TRUE),    \* const x = 1;
       JsLine("decl",     <<"y">>,  {"x"}, TRUE),    \* const y = x;
       JsLine("decl",     <<"x">>,  {},    FALSE),   \* const x = 1
       JsLine("decl",     <<"_t">>, {},    TRUE),    \* const _t = 1;
       JsLine("stmt",     <<>>,     {"x"}, TRUE),    \* foo(x);
       JsLine("declopen", <<"y">>,  {},    FALSE),   \* const y = () => {
       JsLine("end",      <<>>,     {},    TRUE),    \* };
       JsLine("blank",    <<>>,     {},    FALSE) >> \*

JsLines == Range(JsLineCatalogue)

JsFiles == SeqsUpTo(JsLines, MaxJsLen)

\* (const|let|var)\s+(\w+)\s*=\s*  starts the text of the line.
IsDeclaration(l) == l.k \in {"decl", "declopen"}

\* The first line from i on that is not empty (Len(text) + 1: there is none).
FirstNonBlank(text, i) ==
    IF \E j \in i..Len(text) : ~IsBlank(text[j])
      THEN CHOOSE j \in i..Len(text) :
               ~IsBlank(text[j]) /\ \A k \in i..(j - 1) : IsBlank(text[k])
      ELSE Len(text) + 1

\* The first line from i on that holds a semicolon (Len(text) + 1: none).
FirstSemicolon(text, i) ==
    IF \E j \in i..Len(text) : text[j].semi
      THEN CHOOSE j \in i..Len(text) :
               text[j].semi /\ \A k \in i..(j - 1) : ~text[k].semi
      ELSE Len(text) + 1

\* var_pattern matched at the start of line i: ^(\s*) takes the empty lines
\* from i on, the declaration follows, and [^;]+; runs on, over line breaks,
\* to the first semicolon.
MatchAt(text, i) ==
    LET d == FirstNonBlank(text, i)
        e == FirstSemicolon(text, d)
    IN IF d <= Len(text) /\ IsDeclaration(text[d]) /\ e <= Len(text)
         THEN [first |-> i, last |-> e, var_name |-> text[d].t[1]]
         ELSE [first |-> 0, last |-> 0, var_name |-> ""]

RECURSIVE FindIter(_, _)
\* list(re.finditer(var_pattern, content, re.MULTILINE)): the matches from
\* line i on, left to right, none overlapping another.
FindIter(text, i) ==
    IF i > Len(text) THEN <<>>
    ELSE LET m == MatchAt(text, i) IN
         IF m.first = 0 THEN FindIter(text, i + 1)
         ELSE <<m>> \o FindIter(text, m.last + 1)

\* How often \bname\b matches in one line.
Occurrences(l, name) ==
    Cardinality({i \in 1..Len(l.t) : l.t[i] = name})
      + (IF name \in l.r THEN 1 ELSE 0)

RECURSIVE UsageCountFrom(_, _, _)
UsageCountFrom(text, name, i) ==
    IF i > Len(text) THEN 0
    ELSE Occurrences(text[i], name) + UsageCountFrom(text, name, i + 1)

\* len(re.findall(usage_pattern, modified_content))
UsageCount(text, name) == UsageCountFrom(text, name, 1)

\* if usage_count == 1
IsUnusedDeclaration(usage_count) == usage_count = 1

\* re.sub(re.escape(match.group(0)) + r'\n?', '', modified_content, count=1):
\* the name occurs once in modified_content, so the matched text occurs once,
\* where the match was found.
SubMatch(kept, m) ==
    Without(kept, {i \in 1..Len(kept) : kept[i] \in m.first..m.last}, 1)

\* One turn of the loop "for match in list(matches)".
RemoveMatch(text, state, m) ==
    IF IsUnusedDeclaration(UsageCount(TextOf(text, state.modified_content), m.var_name))
      THEN [modified_content |-> SubMatch(state.modified_content, m),
            removed_count |-> state.removed_count + 1]
      ELSE state

RECURSIVE RemoveMatches(_, _, _, _)
RemoveMatches(text, state, ms, i) ==
    IF i > Len(ms) THEN state
    ELSE RemoveMatches(text, RemoveMatch(text, state, ms[i]), ms, i + 1)

\* process_javascript_file as one step.
ProcessJavascriptFile(disk, fault) ==
    IF fault.at = "read" THEN [disk |-> disk, ret |-> ExceptionReturn]
    ELSE LET final == RemoveMatches(disk,
                         [modified_content |-> AllLines(disk), removed_count |-> 0],
                         FindIter(disk, 1), 1)
         IN IF final.removed_count = 0
              THEN [disk |-> disk, ret |-> Returned(0, 0)]
              ELSE WriteBack(disk, TextOf(disk, final.modified_content),
                             final.removed_count, fault)

(***************************************************************************)
(* The state.                                                              *)
(*   disk              the file at filepath                               *)
(*   before            the file when the current call began (history)      *)
(*   ops               the file operations of the current call (history)   *)
(*   content, unused_vars, modified_content, removed_count: the locals of  *)
(*                     process_python_file / process_javascript_file       *)
(*   todo              the part of unused_vars the for loop has not taken  *)
(*   matches, next_match   list(matches) and the loop's place in it        *)
(*   ret               the pair returned                                   *)
(*   pc                the place in the function                           *)
(*   run               which run of the script on this file this is        *)
(*   files, idx, phase, total_removed, total_errors, py_count, js_count:   *)
(*                     the workspace and the locals of main()              *)
(*   log               what each call made by main() returned (history)    *)
(***************************************************************************)
VARIABLES disk, before, ops, content, unused_vars, todo, matches, next_match,
          modified_content, removed_count, ret, pc, run,
          files, idx, phase, total_removed, total_errors, py_count, js_count,
          log

fileVars == <<disk, before, ops, content, unused_vars, todo, matches, next_match,
              modified_content, removed_count, ret, pc, run>>

mainVars == <<files, idx, phase, total_removed, total_errors, py_count, js_count,
              log>>

vars == <<fileVars, mainVars>>

\* The locals of a call that has not begun.
FreshCall ==
    /\ ops = <<>>
    /\ content = <<>>
    /\ unused_vars = {}
    /\ todo = {}
    /\ matches = <<>>
    /\ next_match = 1
    /\ modified_content = <<>>
    /\ removed_count = 0
    /\ ret = Returned(0, 0)

NoSweep ==
    /\ files = <<>>
    /\ idx = 0
    /\ phase = "idle"
    /\ total_removed = 0
    /\ total_errors = 0
    /\ py_count = 0
    /\ js_count = 0
    /\ log = <<>>

NoCall ==
    /\ disk = <<>>
    /\ before = <<>>
    /\ FreshCall
    /\ pc = "idle"
    /\ run = 0

Return(r) ==
    /\ ret' = r
    /\ pc' = "done"

(***************************************************************************)
(* process_python_file(filepath), step by step.                            *)
(***************************************************************************)
InitPy ==
    /\ disk \in PyFiles
    /\ before = disk
    /\ FreshCall
    /\ pc = "py_start"
    /\ run = 1
    /\ NoSweep

\* with open(filepath, 'r') as f: content = f.read()
PyRead ==
    /\ pc = "py_start"
    /\ content' = disk
    /\ ops' = Append(ops, "read")
    /\ pc' = "py_parse"
    /\ UNCHANGED <<disk, before, unused_vars, todo, matches, next_match,
                   modified_content, removed_count, ret, run, mainVars>>

\* The open or the read raises: except Exception.
PyReadFail ==
    /\ pc = "py_start"
    /\ ops' = Append(ops, "read_fail")
    /\ Return(ExceptionReturn)
    /\ UNCHANGED <<disk, before, content, unused_vars, todo, matches, next_match,
                   modified_content, removed_count, run, mainVars>>

\* ast.parse raises SyntaxError: the file is skipped.
PySyntaxError ==
    /\ pc = "py_parse"
    /\ ~Parses(content)
    /\ Return(SyntaxErrorReturn)
    /\ UNCHANGED <<disk, before, ops, content, unused_vars, todo, matches,
                   next_match, modified_content, removed_count, run, mainVars>>

\* detector.visit(tree); unused_vars = detector.get_unused_variables();
\* "if not unused_vars: return 0, 0"; modified_content = content.
PyDetect ==
    /\ pc = "py_parse"
    /\ Parses(content)
    /\ unused_vars' = GetUnusedVariables(content)
    /\ IF unused_vars' = {}
         THEN /\ Return(Returned(0, 0))
              /\ UNCHANGED <<todo, modified_content, removed_count>>
         ELSE /\ todo' = unused_vars'
              /\ modified_content' = AllLines(content)
              /\ removed_count' = 0
              /\ pc' = "py_remove"
              /\ UNCHANGED ret
    /\ UNCHANGED <<disk, before, ops, content, matches, next_match, run, mainVars>>

\* One turn of "for var in unused_vars": a set is iterated in any order.
PyRemoveVar ==
    /\ pc = "py_remove"
    /\ \E var \in todo :
         LET state == RemoveVar(content,
                         [modified_content |-> modified_content,
                          removed_count |-> removed_count], var)
         IN /\ modified_content' = state.modified_content
            /\ removed_count' = state.removed_count
            /\ todo' = todo \ {var}
    /\ UNCHANGED <<disk, before, ops, content, unused_vars, matches, next_match,
                   ret, pc, run, mainVars>>

\* After the loop: "if removed_count > 0" ... else "return 0, 0".
PyLoopEnd ==
    /\ pc = "py_remove"
    /\ todo = {}
    /\ IF removed_count > 0
         THEN pc' = "py_open" /\ UNCHANGED ret
         ELSE Return(Returned(0, 0))
    /\ UNCHANGED <<disk, before, ops, content, unused_vars, todo, matches,
                   next_match, modified_content, removed_count, run, mainVars>>

\* open(filepath, 'w'): the file is truncated where it is.
PyOpenWrite ==
    /\ pc = "py_open"
    /\ disk' = <<>>
    /\ ops' = Append(ops, "open_w")
    /\ pc' = "py_write"
    /\ UNCHANGED <<before, content, unused_vars, todo, matches, next_match,
                   modified_content, removed_count, ret, run, mainVars>>

\* open(filepath, 'w') raises (permission, file moved): except Exception.
PyOpenWriteFail ==
    /\ pc = "py_open"
    /\ ops' = Append(ops, "open_w_fail")
    /\ Return(ExceptionReturn)
    /\ UNCHANGED <<disk, before, content, unused_vars, todo, matches, next_match,
                   modified_content, removed_count, run, mainVars>>

\* f.write(modified_content); return removed_count, 0
PyWrite ==
    /\ pc = "py_write"
    /\ disk' = TextOf(content, modified_content)
    /\ ops' = Append(ops, "write")
    /\ Return(Returned(removed_count, 0))
    /\ UNCHANGED <<before, content, unused_vars, todo, matches, next_match,
                   modified_content, removed_count, run, mainVars>>

\* The write raises (disk full) after n lines reached the file.
PyWriteFail ==
    /\ pc = "py_write"
    /\ \E n \in 0..(Len(modified_content) - 1) :
         disk' = Prefix(TextOf(content, modified_content), n)
    /\ ops' = Append(ops, "write_fail")
    /\ Return(ExceptionReturn)
    /\ UNCHANGED <<before, content, unused_vars, todo, matches, next_match,
                   modified_content, removed_count, run, mainVars>>

\* The script is run again on a file its last run rewrote.
RunAgain(start) ==
    /\ pc = "done"
    /\ run < MaxRuns
    /\ ret.removed > 0
    /\ before' = disk
    /\ ops' = <<>>
    /\ content' = <<>>
    /\ unused_vars' = {}
    /\ todo' = {}
    /\ matches' = <<>>
    /\ next_match' = 1
    /\ modified_content' = <<>>
    /\ removed_count' = 0
    /\ ret' = Returned(0, 0)
    /\ pc' = start
    /\ run' = run + 1
    /\ UNCHANGED <<disk, mainVars>>

PyRunAgain == RunAgain("py_start")

NextPy ==
    \/ PyRead
    \/ PyReadFail
    \/ PySyntaxError
    \/ PyDetect
    \/ PyRemoveVar
    \/ PyLoopEnd
    \/ PyOpenWrite
    \/ PyOpenWriteFail
    \/ PyWrite
    \/ PyWriteFail
    \/ PyRunAgain

SpecPy == InitPy /\ [][NextPy]_vars

(***************************************************************************)
(* process_javascript_file(filepath), step by step.                        *)
(***************************************************************************)
InitJs ==
    /\ disk \in JsFiles
    /\ before = disk
    /\ FreshCall
    /\ pc = "js_start"
    /\ run = 1
    /\ NoSweep

\* with open(filepath, 'r') as f: content = f.read()
JsRead ==
    /\ pc = "js_start"
    /\ content' = disk
    /\ ops' = Append(ops, "read")
    /\ pc' = "js_find"
    /\ UNCHANGED <<disk, before, unused_vars, todo, matches, next_match,
                   modified_content, removed_count, ret, run, mainVars>>

JsReadFail ==
    /\ pc = "js_start"
    /\ ops' = Append(ops, "read_fail")
    /\ Return(ExceptionReturn)
    /\ UNCHANGED <<disk, before, content, unused_vars, todo, matches, next_match,
                   modified_content, removed_count, run, mainVars>>

\* modified_content = content; removed_count = 0; the matches are listed
\* once, on the text as read.
JsFindMatches ==
    /\ pc = "js_find"
    /\ modified_content' = AllLines(content)
    /\ removed_count' = 0
    /\ matches' = FindIter(content, 1)
    /\ next_match' = 1
    /\ pc' = "js_loop"
    /\ UNCHANGED <<disk, before, ops, content, unused_vars, todo, ret, run,
                   mainVars>>

\* One turn of "for match in list(matches)".
JsRemoveMatch ==
    /\ pc = "js_loop"
    /\ next_match <= Len(matches)
    /\ LET state == RemoveMatch(content,
                       [modified_content |-> modified_content,
                        removed_count |-> removed_count], matches[next_match])
       IN /\ modified_content' = state.modified_content
          /\ removed_count' = state.removed_count
    /\ next_match' = next_match + 1
    /\ UNCHANGED <<disk, before, ops, content, unused_vars, todo, matches, ret,
                   pc, run, mainVars>>

JsLoopEnd ==
    /\ pc = "js_loop"
    /\ next_match > Len(matches)
    /\ IF removed_count > 0
         THEN pc' = "js_open" /\ UNCHANGED ret
         ELSE Return(Returned(0, 0))
    /\ UNCHANGED <<disk, before, ops, content, unused_vars, todo, matches,
                   next_match, modified_content, removed_count, run, mainVars>>

JsOpenWrite ==
    /\ pc = "js_open"
    /\ disk' = <<>>
    /\ ops' = Append(ops, "open_w")
    /\ pc' = "js_write"
    /\ UNCHANGED <<before, content, unused_vars, todo, matches, next_match,
                   modified_content, removed_count, ret, run, mainVars>>

JsOpenWriteFail ==
    /\ pc = "js_open"
    /\ ops' = Append(ops, "open_w_fail")
    /\ Return(ExceptionReturn)
    /\ UNCHANGED <<disk, before, content, unused_vars, todo, matches, next_match,
                   modified_content, removed_count, run, mainVars>>

JsWrite ==
    /\ pc = "js_write"
    /\ disk' = TextOf(content, modified_content)
    /\ ops' = Append(ops, "write")
    /\ Return(Returned(removed_count, 0))
    /\ UNCHANGED <<before, content, unused_vars, todo, matches, next_match,
                   modified_content, removed_count, run, mainVars>>

JsWriteFail ==
    /\ pc = "js_write"
    /\ \E n \in 0..(Len(modified_content) - 1) :
         disk' = Prefix(TextOf(content, modified_content), n)
    /\ ops' = Append(ops, "write_fail")
    /\ Return(ExceptionReturn)
    /\ UNCHANGED <<before, content, unused_vars, todo, matches, next_match,
                   modified_content, removed_count, run, mainVars>>

JsRunAgain == RunAgain("js_start")

NextJs ==
    \/ JsRead
    \/ JsReadFail
    \/ JsFindMatches
    \/ JsRemoveMatch
    \/ JsLoopEnd
    \/ JsOpenWrite
    \/ JsOpenWriteFail
    \/ JsWrite
    \/ JsWriteFail
    \/ JsRunAgain

SpecJs == InitJs /\ [][NextJs]_vars

(***************************************************************************)
(* main(): the sweep of the workspace.  An entry of the workspace is a     *)
(* file: the suffix of its name, whether a directory of the skip list is   *)
(* among its path's parts, its text, and the I/O fault its processing      *)
(* meets.  The calls of main() are sequential, so each call is one step.   *)
(***************************************************************************)
Entry(suffix, skipped, text, fault) ==
    [suffix |-> suffix, skipped |-> skipped, disk |-> text, fault |-> fault]

OneDead == <<PyLineCatalogue[1], PyLineCatalogue[2], PyLineCatalogue[6]>>

TwoDead == <<PyLineCatalogue[1], PyLineCatalogue[2]>>

Clean == <<PyLineCatalogue[1], PyLineCatalogue[6]>>

Unparsable == <<PyLineCatalogue[9]>>

JsDead == <<JsLineCatalogue[1]>>

\* The files the explored workspaces are made of.
EntryCatalogue ==
    << Entry(".py",   FALSE, OneDead,    NoFault),
       Entry(".py",   FALSE, TwoDead,    NoFault),
       Entry(".py",   FALSE, Clean,      NoFault),
       Entry(".py",   FALSE, Unparsable, NoFault),
       Entry(".py",   FALSE, OneDead,    Fault("read", 0)),
       Entry(".py",   FALSE, OneDead,    Fault("write", 1)),
       Entry(".py",   TRUE,  OneDead,    NoFault),
       Entry(".js",   FALSE, JsDead,     NoFault),
       Entry(".jsxq", FALSE, JsDead,     NoFault) >>

Workspaces == SeqsUpTo(Range(EntryCatalogue), MaxFiles)

InitMain ==
    /\ files \in Workspaces
    /\ idx = 1
    /\ phase = "py"
    /\ total_removed = 0
    /\ total_errors = 0
    /\ py_count = 0
    /\ js_count = 0
    /\ log = <<>>
    /\ NoCall

\* workspace_root.rglob("*.py") yields the file, and no directory of the
\* skip list is among its parts.
IsPythonCandidate(e) == e.suffix = ".py" /\ ~e.skipped

\* workspace_root.rglob("*.[jt]s[x]?"): in a glob pattern ? stands for one
\* more character, so the name ends in .jsx or .tsx and one character.
MatchesJsGlob(e) == e.suffix \in {".jsxq"}

\* js_file.suffix in ['.js', '.jsx', '.ts', '.tsx'], outside the skip list.
IsJavascriptCandidate(e) ==
    MatchesJsGlob(e) /\ ~e.skipped /\ e.suffix \in {".js", ".jsx", ".ts", ".tsx"}

\* A loop that ends at the first file whose call reports an error.
AfterFileStopOnError(i, r) == IF r.errors > 0 THEN MaxFiles + 1 ELSE i + 1

\* The loop goes on with the next file whatever the call returned.
AfterFile(i, r) == i + 1

\* total_removed += removed; total_errors += errors; the file is counted
\* "if removed > 0 or errors > 0".
Account(i, res, count) ==
    /\ total_removed' = total_removed + res.ret.removed
    /\ total_errors' = total_errors + res.ret.errors
    /\ count' = count + (IF res.ret.removed > 0 \/ res.ret.errors > 0 THEN 1 ELSE 0)
    /\ files' = [files EXCEPT ![i].disk = res.disk]
    /\ log' = Append(log, [file |-> i, ret |-> res.ret])
    /\ idx' = AfterFile(i, res.ret)

\* One turn of the loop over the Python files.
MainPyFile ==
    /\ phase = "py"
    /\ idx <= Len(files)
    /\ IF IsPythonCandidate(files[idx])
         THEN Account(idx, ProcessPythonFile(files[idx].disk, files[idx].fault),
                      py_count)
         ELSE /\ idx' = idx + 1
              /\ UNCHANGED <<files, total_removed, total_errors, py_count, log>>
    /\ UNCHANGED <<phase, js_count, fileVars>>

MainPyDone ==
    /\ phase = "py"
    /\ idx > Len(files)
    /\ phase' = "js"
    /\ idx' = 1
    /\ UNCHANGED <<files, total_removed, total_errors, py_count, js_count, log,
                   fileVars>>

\* One turn of the loop over the JavaScript files.
MainJsFile ==
    /\ phase = "js"
    /\ idx <= Len(files)
    /\ IF IsJavascriptCandidate(files[idx])
         THEN Account(idx, ProcessJavascriptFile(files[idx].disk, files[idx].fault),
                      js_count)
         ELSE /\ idx' = idx + 1
              /\ UNCHANGED <<files, total_removed, total_errors, js_count, log>>
    /\ UNCHANGED <<phase, py_count, fileVars>>

\* The summary is printed.
MainSummary ==
    /\ phase = "js"
    /\ idx > Len(files)
    /\ phase' = "end"
    /\ UNCHANGED <<files, idx, total_removed, total_errors, py_count, js_count,
                   log, fileVars>>

NextMain ==
    \/ MainPyFile
    \/ MainPyDone
    \/ MainJsFile
    \/ MainSummary

SpecMain == InitMain /\ [][NextMain]_vars

(***************************************************************************)
(* Properties.  After a call that returned without an error, Survivors is  *)
(* the set of line numbers of the original file whose lines are in the     *)
(* file on disk.                                                           *)
(***************************************************************************)
Succeeded == pc = "done" /\ ret.errors = 0

Survivors ==
    IF ret.removed > 0 THEN Range(modified_content) ELSE 1..Len(before)

\* The lines of the Assign statements that bind a name of the set dead.
DeadStatementLines(tree, dead) ==
    UNION {a.lineno..a.end_lineno :
             a \in {b \in tree.assigns : Range(b.targets) \cap dead # {}}}

\* C1: after process_python_file, for every name that was not classified as
\* dead and that a line still in the file reads, no assignment binding the
\* name has been deleted (the read still finds its bindings), whatever the
\* shape of the assignment.
C1_UsedBindingsKept ==
    Succeeded =>
        LET tree == Parse(before) IN
        \A d \in DefinedVars(tree) :
            (/\ d[1] \notin unused_vars
             /\ \E ld \in tree.loads : ld[1] = d[1] /\ ld[2] \in Survivors)
                => d[2] \in Survivors

\* C2: when the call ends in an error, whichever step failed, the file on
\* disk equals the file before the call.
C2_FailureLeavesFileUntouched ==
    (pc = "done" /\ ret.errors > 0) => disk = before

\* C3: a second run on the output of a first run removes nothing and
\* leaves the file as it is.
C3_SecondRunChangesNothing ==
    (Succeeded /\ run = 2) => (ret.removed = 0 /\ disk = before)

\* C4: the file written back is the original without the lines of the
\* declaration statements of the dead bindings; every other line is kept, in
\* its order.
C4_OnlyDeadDeclarationsDeleted ==
    (Succeeded /\ ret.removed > 0) =>
        disk = Without(before, DeadStatementLines(Parse(before), unused_vars), 1)

\* C5: a declaration of a name that starts with an underscore is never
\* deleted, in JavaScript mode as in Python mode.
C5_MarkedNeverDeleted ==
    Succeeded =>
        \A i \in 1..Len(before) :
            (IsDeclaration(before[i]) /\ IsMarked(before[i].t[1]))
                => i \in Survivors

\* C6: a declared parameter, of whatever kind and in a signature of one or
\* several lines, is never classified as dead and its line is never deleted
\* from the signature.
C6_ParametersKept ==
    Succeeded =>
        \A p \in Parse(before).params :
            p.arg \notin unused_vars /\ p.lineno \in Survivors

\* C7: in JavaScript mode, a declaration whose name occurs anywhere else in
\* the original file is still in the file after the run.
C7_UsedDeclarationsKept ==
    Succeeded =>
        \A i \in 1..Len(before) :
            (IsDeclaration(before[i]) /\ UsageCount(before, before[i].t[1]) > 1)
                => i \in Survivors

\* The entries main() has to process.
Candidates ==
    {i \in 1..Len(files) :
        IsPythonCandidate(files[i]) \/ IsJavascriptCandidate(files[i])}

RECURSIVE SumRemoved(_, _)
SumRemoved(l, k) ==
    IF k > Len(l) THEN 0 ELSE l[k].ret.removed + SumRemoved(l, k + 1)

C9_ParseErrorSkipsFile ==
    (~Parse(before).ok /\ pc # "py_start") =>
        /\ disk = before
        /\ "open_w" \notin Range(ops)
        /\ modified_content = <<>>
        /\ removed_count = 0
        /\ (ops = <<"read">> => pc \in {"py_parse", "done"})
        /\ (pc = "done" /\ ops = <<"read">> => ret = Returned(0, 1))

\* C9's case: a text that holds an assignment the regex would match, does
\* not parse, and was skipped.
C9_Witness ==
    /\ pc = "done"
    /\ ops = <<"read">>
    /\ ~Parse(before).ok
    /\ \E i \in 1..Len(before) : MatchesAssignment(before[i], "y")

\* C10: when the statement of a dead binding spans several lines, none of
\* its lines is left in the rewritten file.
C10_WholeStatementDeleted ==
    (Succeeded /\ ret.removed > 0) =>
        \A a \in Parse(before).assigns :
            (a.end_lineno > a.lineno /\ Range(a.targets) \cap unused_vars # {})
                => (a.lineno..a.end_lineno) \cap Survivors = {}

=============================================================================
